---- MODULE Spec2Model ----
(***************************************************************************)
(* FlattenPen (Lib/fontPens/flattenPen.py): a filter pen that turns the    *)
(* segments it is driven with into straight lines drawn on another pen.    *)
(*                                                                         *)
(* Numbers.  The producer's coordinates are non-negative Python integers.  *)
(* The points the pen computes are IEEE-754 binary64 values; a value is    *)
(* held exactly, as four limbs <<l0, l1, l2, l3>> of 20 bits standing for  *)
(* l3 + l2/2^20 + l1/2^40 + l0/2^60, and every float operation is the      *)
(* exact result rounded to 53 significant bits, ties to even.              *)
(***************************************************************************)
EXTENDS Integers, Sequences, FiniteSets, TLC

(***************************************************************************)
(* binary64 arithmetic on limbs                                            *)
(***************************************************************************)
Limb == 2^20

\* int -> float: the float equal to the integer x (0 <= x < 2^13).
FromInt(x) == <<0, 0, 0, x>>

\* Carries propagated upward, so that the lower three limbs are below Limb.
Carry(n) ==
  LET t2 == n[2] + (n[1] \div Limb)
      t3 == n[3] + (t2 \div Limb)
      t4 == n[4] + (t3 \div Limb)
  IN  <<n[1] % Limb, t2 % Limb, t3 % Limb, t4>>

\* The exact product of the value n and the integer k (0 <= k < 2^10).
MulSmall(n, k) == Carry(<<n[1] * k, n[2] * k, n[3] * k, n[4] * k>>)

\* The exact difference a - b of two values, a >= b.
Sub(a, b) ==
  LET d1 == a[1] - b[1]
      b1 == IF d1 < 0 THEN 1 ELSE 0
      d2 == a[2] - b[2] - b1
      b2 == IF d2 < 0 THEN 1 ELSE 0
      d3 == a[3] - b[3] - b2
      b3 == IF d3 < 0 THEN 1 ELSE 0
  IN  <<d1 + b1 * Limb, d2 + b2 * Limb, d3 + b3 * Limb, a[4] - b[4] - b3>>

RECURSIVE BitLen(_)
BitLen(x) == IF x = 0 THEN 0 ELSE 1 + BitLen(x \div 2)

\* The number of bits from the leading one of n down to the 2^-60 place.
Width(n) ==
  IF n[4] > 0 THEN 60 + BitLen(n[4])
  ELSE IF n[3] > 0 THEN 40 + BitLen(n[3])
  ELSE IF n[2] > 0 THEN 20 + BitLen(n[2])
  ELSE BitLen(n[1])

\* Rounding of an exact value to binary64: 53 significant bits, round to
\* nearest, ties to even.  Values stay below 2^13, so at most the lowest
\* limb is dropped.
Round53(n) ==
  LET p    == Width(n) - 53
      unit == 2^p
      rem  == n[1] % unit
      lsb  == IF p = 20 THEN n[2] % 2 ELSE (n[1] \div unit) % 2
      down == <<n[1] - rem, n[2], n[3], n[4]>>
      up   == Carry(<<n[1] - rem + unit, n[2], n[3], n[4]>>)
  IN  IF p <= 0 THEN n
      ELSE IF 2 * rem > unit \/ (2 * rem = unit /\ lsb = 1) THEN up ELSE down

\* Quotient and remainder of the value n (limbs) by the integer d (d <= 256).
DivSmall(n, d) ==
  LET q4 == n[4] \div d
      r4 == n[4] % d
      t3 == r4 * Limb + n[3]
      t2 == (t3 % d) * Limb + n[2]
      t1 == (t2 % d) * Limb + n[1]
  IN  [q |-> <<t1 \div d, t2 \div d, t3 \div d, q4>>, r |-> t1 % d]

\* 1.0 / n for an integer n in 1..256: the quotient 2^(k+52) / n, where
\* 2^(k-1) < n <= 2^k, has exactly 53 bits before its fraction; it is
\* rounded to nearest (no tie occurs) and scaled back by 2^-(k+52).
Reciprocal(n) ==
  LET k   == BitLen(n - 1)
      one == IF k = 8 THEN <<0, 0, 0, 1>> ELSE <<0, 0, 2^(k + 12), 0>>
      qr  == DivSmall(one, n)
      m   == IF 2 * qr.r > n
             THEN Carry(<<qr.q[1] + 1, qr.q[2], qr.q[3], qr.q[4]>>)
             ELSE qr.q
  IN  MulSmall(m, 2^(8 - k))

\* i * step for an integer i and a float step.
Times(i, step) == Round53(MulSmall(step, i))

(***************************************************************************)
(* Points and the helpers of penTools                                      *)
(***************************************************************************)
\* Python's None: the value of currentPt and firstPt outside a subpath.
None == <<>>

\* The point (x, y) of two integers.
Pt(x, y) == <<FromInt(x), FromInt(y)>>

RECURSIVE ISqrt(_)
\* The integer part of the square root of n.
ISqrt(n) ==
  IF n < 2 THEN n
  ELSE LET s == 2 * ISqrt(n \div 4)
       IN  IF (s + 1) * (s + 1) <= n THEN s + 1 ELSE s

\* distance(pt1, pt2) is sqrt(q) for the integer q returned here: the
\* length is held as its square so that no precision is lost.
distance(pt1, pt2) ==
  LET dx == pt1[1][4] - pt2[1][4]
      dy == pt1[2][4] - pt2[2][4]
  IN  dx * dx + dy * dy

\* int(round(sqrt(q) / s)) for integers q >= 0 and s > 0.  sqrt(q) / s
\* lies at k + 1/2 exactly when 4q = ((2k + 1) s)^2; otherwise it is
\* further from k + 1/2 than the error of the float sqrt and division, so
\* the float result rounds as the exact one.  A tie goes to the even
\* neighbour under Python 3 and away from zero under Python 2.
roundSqrtOver(q, s, even) ==
  LET k    == ISqrt(q \div (s * s))
      half == (2 * k + 1) * s
  IN  IF 4 * q > half * half THEN k + 1
      ELSE IF 4 * q < half * half THEN k
      ELSE IF even /\ k % 2 = 0 THEN k
      ELSE k + 1

\* int(round(e / s)) for a length e given in 64ths of a unit.
roundOver(e, s, even) ==
  LET k == e \div (64 * s)
      r == e % (64 * s)
  IN  IF 2 * r > 64 * s THEN k + 1
      ELSE IF 2 * r < 64 * s THEN k
      ELSE IF even /\ k % 2 = 0 THEN k
      ELSE k + 1

\* One coordinate of interpolatePoint: xa + (xb - xa) * v in floats, for
\* integer coordinates xa, xb and a float v in [0, 1].
interpolate(xa, xb, v) ==
  IF xb >= xa
  THEN LET p == Round53(MulSmall(v, xb - xa))
       IN  Round53(<<p[1], p[2], p[3], p[4] + xa>>)
  ELSE LET p == Round53(MulSmall(v, xa - xb))
       IN  Round53(Sub(FromInt(xa), p))

interpolatePoint(a, b, v) ==
  <<interpolate(a[1][4], b[1][4], v), interpolate(a[2][4], b[2][4], v)>>

\* The length of a segment in 64ths of a unit, rounded down.
Length64(pt1, pt2) == ISqrt(distance(pt1, pt2) * 4096)

\* The estimate of a cubic's length, in 64ths of a unit: the mean of the
\* chord and of the control polygon.
estimateCubicCurveLength(pt0, pt1, pt2, pt3) ==
  (Length64(pt0, pt3) + Length64(pt0, pt1) + Length64(pt1, pt2)
     + Length64(pt2, pt3)) \div 2

\* a + (b - a) * T / 1024 on coordinates in 64ths of a unit.
Lerp(a, b, T) == a + ((b - a) * T) \div 1024

\* One coordinate of the cubic at parameter T / 1024 (de Casteljau), from
\* and to 64ths of a unit.
Cubic(T, c0, c1, c2, c3) ==
  LET a == Lerp(c0, c1, T)
      b == Lerp(c1, c2, T)
      c == Lerp(c2, c3, T)
  IN  Lerp(Lerp(a, b, T), Lerp(b, c, T), T)

\* getCubicPoint(t, pt0, pt1, pt2, pt3): the point of the cubic at the
\* float parameter t, here taken to the nearest 1024th, with coordinates
\* to the 64th of a unit.
getCubicPoint(t, pt0, pt1, pt2, pt3) ==
  LET T == t[4] * 1024 + (t[3] + 512) \div 1024
      x == Cubic(T, pt0[1][4] * 64, pt1[1][4] * 64, pt2[1][4] * 64, pt3[1][4] * 64)
      y == Cubic(T, pt0[2][4] * 64, pt1[2][4] * 64, pt2[2][4] * 64, pt3[2][4] * 64)
  IN  <<<<0, 0, (x % 64) * 2^14, x \div 64>>, <<0, 0, (y % 64) * 2^14, y \div 64>>>>

(***************************************************************************)
(* The pen                                                                 *)
(***************************************************************************)
VARIABLES
  approximateSegmentLength,  \* configuration, set by __init__
  segmentLines,
  filterDoubles,
  halfEven,     \* the interpreter's round(): ties to even, or away from zero
  currentPt,    \* self.currentPt
  firstPt,      \* self.firstPt
  otherPen,     \* the calls received by self.otherPen, in order
  origin,       \* origin[j]: the number of the call that made otherPen[j]
  calls,        \* the calls the producer made on the pen, in order
  before,       \* before[k]: <<currentPt, firstPt>> as call k found them
  raised,       \* raised[k]: whether call k raised an exception
  aGlyph,       \* flattenGlyph's glyph: the calls its draw method makes
  pc            \* the statement flattenGlyph is at; "idle" when it is not called

vars == <<approximateSegmentLength, segmentLines, filterDoubles, halfEven,
          currentPt, firstPt, otherPen, origin, calls, before, raised,
          aGlyph, pc>>

config == <<approximateSegmentLength, segmentLines, filterDoubles, halfEven>>

\* Bounds of the model: the number of calls of a producer that may call in
\* any order, and of one that follows the pen protocol.
MaxCalls == 3
MaxDrawCalls == 5

SegmentLengths == {10, 40}

Corners == {Pt(10, 10), Pt(10, 30), Pt(30, 30), Pt(30, 10)}
Points == {Pt(10, 10), Pt(10, 30), Pt(10, 500)}
Curves ==
  { <<Pt(10, 10), Pt(30, 30), Pt(30, 30)>>,
    <<Pt(10, 10), Pt(10, 10), Pt(10, 10)>>,
    <<Pt(10, 30), Pt(30, 30), Pt(30, 10)>>,
    <<Pt(10, 30), Pt(10, 30), Pt(10, 30)>>,
    <<Pt(10, 30), Pt(30, 30), Pt(10, 10)>> }
DrawCurves ==
  { <<Pt(10, 10), Pt(30, 30), Pt(30, 30)>>,
    <<Pt(10, 30), Pt(30, 30), Pt(30, 10)>> }
Components == { <<"a", <<1, 0, 0, 1, 0, 0>>>>, <<"b", <<1, 0, 0, 1, 20, 0>>>> }

DrawComponents == { <<"a", <<1, 0, 0, 1, 0, 0>>>> }

Call(op, args) == [op |-> op, args |-> args]

\* What a method did: the calls it made on otherPen, the currentPt it
\* left, and whether it raised.
Outcome(out, pt, exc) == [out |-> out, currentPt |-> pt, raised |-> exc]

Init ==
  /\ approximateSegmentLength \in SegmentLengths
  /\ segmentLines \in BOOLEAN
  /\ filterDoubles \in BOOLEAN
  /\ halfEven \in BOOLEAN
  /\ currentPt = None
  /\ firstPt = None
  /\ otherPen = <<>>
  /\ origin = <<>>
  /\ calls = <<>>
  /\ before = <<>>
  /\ raised = <<>>
  /\ aGlyph = <<>>
  /\ pc = "idle"

\* The bookkeeping of one call on the pen: the call is logged, and what it
\* sent to otherPen is appended to otherPen's log.
Drive(call, res) ==
  /\ calls' = Append(calls, call)
  /\ before' = Append(before, <<currentPt, firstPt>>)
  /\ otherPen' = otherPen \o res.out
  /\ origin' = origin \o [j \in 1..Len(res.out) |-> Len(calls) + 1]
  /\ raised' = Append(raised, res.raised)
  /\ currentPt' = res.currentPt
  /\ UNCHANGED <<config, aGlyph, pc>>

\* Seeded fault: _lineTo with the loop running over factors instead of
\* factors[1:], so that the segmented line starts with its own start point.
_lineToFromZero(pt) ==
  IF filterDoubles /\ pt = currentPt
  THEN Outcome(<<>>, currentPt, FALSE)
  ELSE IF ~segmentLines
  THEN Outcome(<<Call("lineTo", <<pt>>)>>, pt, FALSE)
  ELSE IF currentPt = None \/ pt = None
  THEN Outcome(<<>>, currentPt, TRUE)
  ELSE
    LET d        == distance(currentPt, pt)
        maxSteps == roundSqrtOver(d, approximateSegmentLength, halfEven)
        step     == Reciprocal(maxSteps)
    IN  IF maxSteps < 1
        THEN Outcome(<<Call("lineTo", <<pt>>)>>, pt, FALSE)
        ELSE Outcome(
               [i \in 1..(maxSteps + 1) |->
                  Call("lineTo",
                       <<interpolatePoint(currentPt, pt, Times(i - 1, step))>>)],
               pt, FALSE)

\* Seeded fault: _lineTo without the filterDoubles test.
_lineToUnfiltered(pt) ==
  IF ~segmentLines
  THEN Outcome(<<Call("lineTo", <<pt>>)>>, pt, FALSE)
  ELSE IF currentPt = None \/ pt = None
  THEN Outcome(<<>>, currentPt, TRUE)
  ELSE
    LET d        == distance(currentPt, pt)
        maxSteps == roundSqrtOver(d, approximateSegmentLength, halfEven)
        step     == Reciprocal(maxSteps)
    IN  IF maxSteps < 1
        THEN Outcome(<<Call("lineTo", <<pt>>)>>, pt, FALSE)
        ELSE Outcome(
               [i \in 1..maxSteps |->
                  Call("lineTo", <<interpolatePoint(currentPt, pt, Times(i, step))>>)],
               pt, FALSE)

\* Seeded fault: _lineTo cutting lines whether or not segmentLines is set.
_lineToAlwaysCut(pt) ==
  IF filterDoubles /\ pt = currentPt
  THEN Outcome(<<>>, currentPt, FALSE)
  ELSE IF currentPt = None \/ pt = None
  THEN Outcome(<<>>, currentPt, TRUE)
  ELSE
    LET d        == distance(currentPt, pt)
        maxSteps == roundSqrtOver(d, approximateSegmentLength, halfEven)
        step     == Reciprocal(maxSteps)
    IN  IF maxSteps < 1
        THEN Outcome(<<Call("lineTo", <<pt>>)>>, pt, FALSE)
        ELSE Outcome(
               [i \in 1..maxSteps |->
                  Call("lineTo", <<interpolatePoint(currentPt, pt, Times(i, step))>>)],
               pt, FALSE)

\* Seeded fault: _lineTo leaving the last point it sent, not pt, as the
\* current point.
_lineToDrift(pt) ==
  IF filterDoubles /\ pt = currentPt
  THEN Outcome(<<>>, currentPt, FALSE)
  ELSE IF ~segmentLines
  THEN Outcome(<<Call("lineTo", <<pt>>)>>, pt, FALSE)
  ELSE IF currentPt = None \/ pt = None
  THEN Outcome(<<>>, currentPt, TRUE)
  ELSE
    LET d        == distance(currentPt, pt)
        maxSteps == roundSqrtOver(d, approximateSegmentLength, halfEven)
        step     == Reciprocal(maxSteps)
    IN  IF maxSteps < 1
        THEN Outcome(<<Call("lineTo", <<pt>>)>>, pt, FALSE)
        ELSE Outcome(
               [i \in 1..maxSteps |->
                  Call("lineTo", <<interpolatePoint(currentPt, pt, Times(i, step))>>)],
               interpolatePoint(currentPt, pt, Times(maxSteps, step)), FALSE)

_lineTo(pt) ==
  IF filterDoubles /\ pt = currentPt
  THEN Outcome(<<>>, currentPt, FALSE)
  ELSE IF ~segmentLines
  THEN Outcome(<<Call("lineTo", <<pt>>)>>, pt, FALSE)
  ELSE IF currentPt = None \/ pt = None
  THEN Outcome(<<>>, currentPt, TRUE)
  ELSE
    LET d        == distance(currentPt, pt)
        maxSteps == roundSqrtOver(d, approximateSegmentLength, halfEven)
        step     == Reciprocal(maxSteps)
    IN  IF maxSteps < 1
        THEN Outcome(<<Call("lineTo", <<pt>>)>>, pt, FALSE)
        ELSE Outcome(
               [i \in 1..maxSteps |->
                  Call("lineTo", <<interpolatePoint(currentPt, pt, Times(i, step))>>)],
               pt, FALSE)

\* Seeded fault: _curveToOne passing the curve on to otherPen.
_curveToOneForwarded(pt1, pt2, pt3) ==
  IF currentPt = None
  THEN Outcome(<<>>, currentPt, TRUE)
  ELSE Outcome(<<Call("curveTo", <<pt1, pt2, pt3>>)>>, pt3, FALSE)

\* Seeded fault: _curveToOne without the falseCurve test.
_curveToOneAlwaysCut(pt1, pt2, pt3) ==
  IF currentPt = None
  THEN Outcome(<<>>, currentPt, TRUE)
  ELSE
    LET est      == estimateCubicCurveLength(currentPt, pt1, pt2, pt3)
        maxSteps == roundOver(est, approximateSegmentLength, halfEven)
        step     == Reciprocal(maxSteps)
    IN  IF maxSteps < 1
        THEN Outcome(<<Call("lineTo", <<pt3>>)>>, pt3, FALSE)
        ELSE Outcome(
               [i \in 1..maxSteps |->
                  Call("lineTo",
                       <<getCubicPoint(Times(i, step), currentPt, pt1, pt2, pt3)>>)],
               pt3, FALSE)

\* Seeded fault: _curveToOne with the loop running over factors instead of
\* factors[1:], so that the flattened curve starts with its own start point.
_curveToOneFromZero(pt1, pt2, pt3) ==
  IF currentPt = None
  THEN Outcome(<<>>, currentPt, TRUE)
  ELSE
    LET est        == estimateCubicCurveLength(currentPt, pt1, pt2, pt3)
        maxSteps   == roundOver(est, approximateSegmentLength, halfEven)
        falseCurve == (pt1 = currentPt) /\ (pt2 = pt3)
        step       == Reciprocal(maxSteps)
    IN  IF maxSteps < 1 \/ falseCurve
        THEN Outcome(<<Call("lineTo", <<pt3>>)>>, pt3, FALSE)
        ELSE Outcome(
               [i \in 1..(maxSteps + 1) |->
                  Call("lineTo",
                       <<getCubicPoint(Times(i - 1, step), currentPt, pt1, pt2, pt3)>>)],
               pt3, FALSE)

\* Seeded fault: _curveToOne flattening curves only when segmentLines is
\* set, and sending a curve on as one line to its end otherwise.
_curveToOneIfSegmenting(pt1, pt2, pt3) ==
  IF currentPt = None
  THEN Outcome(<<>>, currentPt, TRUE)
  ELSE
    LET est        == estimateCubicCurveLength(currentPt, pt1, pt2, pt3)
        maxSteps   == roundOver(est, approximateSegmentLength, halfEven)
        falseCurve == (pt1 = currentPt) /\ (pt2 = pt3)
        step       == Reciprocal(maxSteps)
    IN  IF maxSteps < 1 \/ falseCurve \/ ~segmentLines
        THEN Outcome(<<Call("lineTo", <<pt3>>)>>, pt3, FALSE)
        ELSE Outcome(
               [i \in 1..maxSteps |->
                  Call("lineTo",
                       <<getCubicPoint(Times(i, step), currentPt, pt1, pt2, pt3)>>)],
               pt3, FALSE)

_curveToOne(pt1, pt2, pt3) ==
  IF currentPt = None
  THEN Outcome(<<>>, currentPt, TRUE)
  ELSE
    LET est        == estimateCubicCurveLength(currentPt, pt1, pt2, pt3)
        maxSteps   == roundOver(est, approximateSegmentLength, halfEven)
        falseCurve == (pt1 = currentPt) /\ (pt2 = pt3)
        step       == Reciprocal(maxSteps)
    IN  IF maxSteps < 1 \/ falseCurve
        THEN Outcome(<<Call("lineTo", <<pt3>>)>>, pt3, FALSE)
        ELSE Outcome(
               [i \in 1..maxSteps |->
                  Call("lineTo",
                       <<getCubicPoint(Times(i, step), currentPt, pt1, pt2, pt3)>>)],
               pt3, FALSE)

\* Seeded fault: _closePath calling otherPen.closePath() before it draws
\* the closing line.
_closePathFirst ==
  LET line == _lineTo(firstPt)
  IN  IF line.raised
      THEN line
      ELSE Outcome(<<Call("closePath", <<>>)>> \o line.out, None, FALSE)

\* Seeded fault: _closePath without the closing line.
_closePathNoLine ==
  Outcome(<<Call("closePath", <<>>)>>, None, FALSE)

\* Seeded fault: _closePath sending the closing line straight to otherPen
\* instead of calling self.lineTo.
_closePathDirect ==
  Outcome(<<Call("lineTo", <<firstPt>>), Call("closePath", <<>>)>>, None, FALSE)

_closePath ==
  LET line == _lineTo(firstPt)
  IN  IF line.raised
      THEN line
      ELSE Outcome(line.out \o <<Call("closePath", <<>>)>>, None, FALSE)

\* Seeded fault: _moveTo setting firstPt only when the pen has none, so
\* that the start of an earlier subpath is kept.
moveToKeepFirst(pt) ==
  /\ Drive(Call("moveTo", <<pt>>), Outcome(<<Call("moveTo", <<pt>>)>>, pt, FALSE))
  /\ firstPt' = IF firstPt = None THEN pt ELSE firstPt

moveTo(pt) ==
  /\ Drive(Call("moveTo", <<pt>>), Outcome(<<Call("moveTo", <<pt>>)>>, pt, FALSE))
  /\ firstPt' = pt

lineTo(pt) ==
  /\ Drive(Call("lineTo", <<pt>>), _lineTo(pt))
  /\ UNCHANGED firstPt

curveTo(pt1, pt2, pt3) ==
  /\ Drive(Call("curveTo", <<pt1, pt2, pt3>>), _curveToOne(pt1, pt2, pt3))
  /\ UNCHANGED firstPt

closePath ==
  /\ Drive(Call("closePath", <<>>), _closePath)
  /\ UNCHANGED firstPt

endPath ==
  /\ Drive(Call("endPath", <<>>), Outcome(<<Call("endPath", <<>>)>>, None, FALSE))
  /\ UNCHANGED firstPt

\* Seeded fault: addComponent ending the subpath, as endPath does.
addComponentEnding(glyphName, transformation) ==
  /\ Drive(Call("addComponent", <<glyphName, transformation>>),
           Outcome(<<Call("addComponent", <<glyphName, transformation>>)>>,
                   None, FALSE))
  /\ UNCHANGED firstPt

addComponent(glyphName, transformation) ==
  /\ Drive(Call("addComponent", <<glyphName, transformation>>),
           Outcome(<<Call("addComponent", <<glyphName, transformation>>)>>,
                   currentPt, FALSE))
  /\ UNCHANGED firstPt

(***************************************************************************)
(* Producers                                                               *)
(***************************************************************************)
\* A producer that calls the pen's methods in any order.
More == Len(calls) < MaxCalls

Next ==
  \/ \E pt \in Points : More /\ moveTo(pt)
  \/ \E pt \in Points : More /\ lineTo(pt)
  \/ \E c \in Curves : More /\ curveTo(c[1], c[2], c[3])
  \/ More /\ closePath
  \/ More /\ endPath
  \/ \E c \in Components : More /\ addComponent(c[1], c[2])

Spec == Init /\ [][Next]_vars

\* Whether the producer is inside a subpath: its last call other than
\* addComponent is neither closePath nor endPath.
InSubpath ==
  LET path == SelectSeq(calls, LAMBDA c : c.op # "addComponent")
  IN  path # <<>> /\ path[Len(path)].op \notin {"closePath", "endPath"}

\* glyph.draw(pen): a producer that follows the pen protocol.  Each
\* subpath is one moveTo, then lineTo and curveTo calls, then one closePath
\* or endPath; components are added between subpaths.
MoreDraw == Len(calls) < MaxDrawCalls

NextDraw ==
  \/ \E pt \in Corners : MoreDraw /\ ~InSubpath /\ moveTo(pt)
  \/ \E pt \in Corners : MoreDraw /\ InSubpath /\ lineTo(pt)
  \/ \E c \in DrawCurves : MoreDraw /\ InSubpath /\ curveTo(c[1], c[2], c[3])
  \/ MoreDraw /\ InSubpath /\ closePath
  \/ MoreDraw /\ InSubpath /\ endPath
  \/ \E c \in DrawComponents : MoreDraw /\ ~InSubpath /\ addComponent(c[1], c[2])

SpecDraw == Init /\ [][NextDraw]_vars

(***************************************************************************)
(* flattenGlyph                                                            *)
(***************************************************************************)
\* The calls _makeTestGlyph draws: a closed square.
Square ==
  << Call("moveTo", <<Pt(10, 10)>>), Call("lineTo", <<Pt(10, 30)>>),
     Call("lineTo", <<Pt(30, 30)>>), Call("lineTo", <<Pt(30, 10)>>),
     Call("closePath", <<>>) >>

\* The glyphs flattenGlyph is called with, each the calls its draw method
\* makes, contours first and components last: a glyph with nothing in it,
\* a glyph with a component and no contour, the square of _makeTestGlyph,
\* alone and with a component, a triangle whose last line goes back to its
\* start, an open contour, a closed contour of two curves, and a glyph of
\* two contours.
Glyphs ==
  { <<>>,
    << Call("addComponent", <<"a", <<1, 0, 0, 1, 0, 0>>>>) >>,
    Square,
    Square \o << Call("addComponent", <<"a", <<1, 0, 0, 1, 0, 0>>>>) >>,
    << Call("moveTo", <<Pt(10, 10)>>), Call("lineTo", <<Pt(10, 30)>>),
       Call("lineTo", <<Pt(30, 30)>>), Call("lineTo", <<Pt(10, 10)>>),
       Call("closePath", <<>>) >>,
    << Call("moveTo", <<Pt(10, 10)>>), Call("lineTo", <<Pt(30, 10)>>),
       Call("lineTo", <<Pt(30, 30)>>), Call("endPath", <<>>) >>,
    << Call("moveTo", <<Pt(10, 10)>>),
       Call("curveTo", <<Pt(10, 30), Pt(30, 30), Pt(30, 10)>>),
       Call("curveTo", <<Pt(10, 10), Pt(30, 30), Pt(30, 30)>>),
       Call("closePath", <<>>) >>,
    << Call("moveTo", <<Pt(10, 10)>>), Call("lineTo", <<Pt(10, 30)>>),
       Call("endPath", <<>>),
       Call("moveTo", <<Pt(30, 30)>>), Call("lineTo", <<Pt(30, 10)>>),
       Call("closePath", <<>>) >> }

\* flattenGlyph(aGlyph, threshold, segmentLines) is called: the pen it
\* makes has threshold as its segment length and filterDoubles by default.
InitGlyph ==
  /\ approximateSegmentLength \in SegmentLengths
  /\ segmentLines \in BOOLEAN
  /\ filterDoubles = TRUE
  /\ halfEven \in BOOLEAN
  /\ currentPt = None
  /\ firstPt = None
  /\ otherPen = <<>>
  /\ origin = <<>>
  /\ calls = <<>>
  /\ before = <<>>
  /\ raised = <<>>
  /\ aGlyph \in Glyphs
  /\ pc = "start"

\* len(aGlyph): the number of contours of the glyph.
Contours(glyph) == Len(SelectSeq(glyph, LAMBDA c : c.op = "moveTo"))

\* The contour that call j of a sequence of pen calls is in starts at the
\* last moveTo before it.
ContourStart(seq, j) ==
  LET m == CHOOSE i \in 1..(j - 1) :
             /\ seq[i].op = "moveTo"
             /\ \A h \in (i + 1)..(j - 1) : seq[h].op # "moveTo"
  IN  seq[m].args[1]

\* The last point of a closed contour is left out of the rebuilt glyph when
\* it is the first point of the contour.
Repeated(seq, j) ==
  /\ seq[j].op = "lineTo"
  /\ j < Len(seq)
  /\ seq[j + 1].op = "closePath"
  /\ \E i \in 1..(j - 1) : seq[i].op = "moveTo"
  /\ seq[j].args[1] = ContourStart(seq, j)

RECURSIVE RebuiltFrom(_, _)
RebuiltFrom(seq, j) ==
  IF j > Len(seq) THEN <<>>
  ELSE (IF Repeated(seq, j) THEN <<>> ELSE <<seq[j]>>) \o RebuiltFrom(seq, j + 1)

\* The calls the draw method of the glyph makes once the calls seq, which
\* went through SegmentToPointPen into the DataPointPen, are drawn from
\* there into the pen of the cleared glyph.
Rebuilt(seq) == RebuiltFrom(seq, 1)

\* Lines 82-87: an empty glyph is returned as it is; otherwise the pens
\* are made.
flattenGlyph ==
  /\ pc = "start"
  /\ pc' = IF Contours(aGlyph) = 0 THEN "done" ELSE "draw"
  /\ UNCHANGED <<config, currentPt, firstPt, otherPen, origin, calls, before,
                 raised, aGlyph>>

\* Line 88, aGlyph.draw(filterpen): the glyph is about to make the call c
\* on the pen.
Drawing(c) ==
  /\ pc = "draw"
  /\ Len(calls) < Len(aGlyph)
  /\ aGlyph[Len(calls) + 1] = c

\* Seeded fault: aGlyph.draw returning before the glyph has made all its
\* calls.
aGlyph_drawnEarly ==
  /\ pc = "draw"
  /\ pc' = "clear"
  /\ UNCHANGED <<config, currentPt, firstPt, otherPen, origin, calls, before,
                 raised, aGlyph>>

\* Line 88: aGlyph.draw returns when the glyph has made all its calls.
aGlyph_drawn ==
  /\ pc = "draw"
  /\ Len(calls) = Len(aGlyph)
  /\ pc' = "clear"
  /\ UNCHANGED <<config, currentPt, firstPt, otherPen, origin, calls, before,
                 raised, aGlyph>>

\* Line 89: aGlyph.clear().
aGlyph_clear ==
  /\ pc = "clear"
  /\ aGlyph' = <<>>
  /\ pc' = "replay"
  /\ UNCHANGED <<config, currentPt, firstPt, otherPen, origin, calls, before,
                 raised>>

\* Lines 90-91: data.draw(aGlyph.getPen()), then the glyph is returned.
data_draw ==
  /\ pc = "replay"
  /\ aGlyph' = Rebuilt(otherPen)
  /\ pc' = "done"
  /\ UNCHANGED <<config, currentPt, firstPt, otherPen, origin, calls, before,
                 raised>>

NextGlyph ==
  \/ flattenGlyph
  \/ \E pt \in Corners : Drawing(Call("moveTo", <<pt>>)) /\ moveTo(pt)
  \/ \E pt \in Corners : Drawing(Call("lineTo", <<pt>>)) /\ lineTo(pt)
  \/ \E c \in DrawCurves : Drawing(Call("curveTo", c)) /\ curveTo(c[1], c[2], c[3])
  \/ Drawing(Call("closePath", <<>>)) /\ closePath
  \/ Drawing(Call("endPath", <<>>)) /\ endPath
  \/ \E c \in DrawComponents : Drawing(Call("addComponent", c)) /\ addComponent(c[1], c[2])
  \/ aGlyph_drawn
  \/ aGlyph_clear
  \/ data_draw

SpecGlyph == InitGlyph /\ [][NextGlyph]_vars

(***************************************************************************)
(* Properties                                                              *)
(***************************************************************************)
\* What call k sent to otherPen, in order: the calls of otherPen's log
\* whose origin is k, which follow one another in the log.
Sent(k) ==
  LET idx == {j \in 1..Len(otherPen) : origin[j] = k}
      lo  == CHOOSE j \in idx : \A i \in idx : j <= i
  IN  IF idx = {} THEN <<>> ELSE SubSeq(otherPen, lo, lo + Cardinality(idx) - 1)

Ops(seq) == [j \in 1..Len(seq) |-> seq[j].op]

IsLine(c) == c.op = "lineTo"
IsStructural(c) == c.op \in {"moveTo", "closePath", "endPath", "addComponent"}

RECURSIVE Grammar(_, _, _)
\* Whether the operations ops[j..] follow the pen protocol, a subpath
\* being open or not before them: a moveTo opens a subpath, lineTo and
\* curveTo stay inside one, closePath and endPath end it.
Grammar(ops, j, open) ==
  IF j > Len(ops) THEN TRUE
  ELSE IF ops[j] = "moveTo" THEN ~open /\ Grammar(ops, j + 1, TRUE)
  ELSE IF ops[j] \in {"lineTo", "curveTo"} THEN open /\ Grammar(ops, j + 1, TRUE)
  ELSE IF ops[j] \in {"closePath", "endPath"} THEN open /\ Grammar(ops, j + 1, FALSE)
  ELSE Grammar(ops, j + 1, open)

WellFormed(seq) == Grammar(Ops(seq), 1, FALSE)

\* The calls that did not raise.
Completed == [k \in 1..Len(calls) |-> IF raised[k] THEN Call("raised", <<>>) ELSE calls[k]]

\* C1: whatever the calls and the configuration, otherPen never receives
\* a curveTo: it receives only moveTo, lineTo, closePath, endPath and
\* addComponent.
C1_NoCurveDownstream ==
  \A j \in 1..Len(otherPen) :
    otherPen[j].op \in {"moveTo", "lineTo", "closePath", "endPath", "addComponent"}

\* A curveTo that was flattened into several lines.
C1_Witness ==
  \E k \in 1..Len(calls) : calls[k].op = "curveTo" /\ Len(Sent(k)) >= 2

\* C2, as stated: the structural calls received by otherPen are the
\* structural calls made on the pen, whatever the calls.
C2_Original ==
  SelectSeq(otherPen, IsStructural) = SelectSeq(calls, IsStructural)

\* C2, amended: the structural calls (moveTo, closePath, endPath,
\* addComponent) received by otherPen are, in order and with their
\* arguments, the structural calls made on the pen that did not raise;
\* what call k sent precedes what call k + 1 sent; and calls that follow
\* the pen protocol give otherPen calls that follow it.
C2_StructurePreserved ==
  /\ SelectSeq(otherPen, IsStructural) = SelectSeq(Completed, IsStructural)
  /\ \A i, j \in 1..Len(otherPen) : i < j => origin[i] <= origin[j]
  /\ WellFormed(calls) => WellFormed(otherPen)

\* A subpath of one line, closed: the closePath sent a closing edge of
\* several lines and then the closePath.
C2_Witness ==
  /\ WellFormed(calls)
  /\ Ops(calls) = <<"moveTo", "lineTo", "closePath">>
  /\ Len(Sent(2)) >= 1
  /\ Len(Sent(3)) >= 3

\* The calls lineTo(B) made with segmentLines enabled while the current
\* point was a point A.
SegmentedLines ==
  {k \in 1..Len(calls) :
     calls[k].op = "lineTo" /\ segmentLines /\ before[k][1] # None}

\* max(1, round(distance(A, B) / approximateSegmentLength)) for call k.
StepCount(k) ==
  LET n == roundSqrtOver(distance(before[k][1], calls[k].args[1]),
                         approximateSegmentLength, halfEven)
  IN  IF n < 1 THEN 1 ELSE n

\* C3, as stated: a lineTo from A to B with segmentLines enabled sends
\* max(1, round(distance(A, B) / S)) lineTo calls to otherPen.
C3_Original ==
  \A k \in SegmentedLines : Len(Sent(k)) = StepCount(k)

\* C3, amended: it does so unless filterDoubles is enabled and B equals A,
\* in which case it sends nothing.
C3_LineCount ==
  \A k \in SegmentedLines :
    /\ \A j \in 1..Len(Sent(k)) : Sent(k)[j].op = "lineTo"
    /\ Len(Sent(k)) = IF filterDoubles /\ calls[k].args[1] = before[k][1]
                      THEN 0
                      ELSE StepCount(k)

\* A line cut into a dozen pieces, and a line between two different points
\* that is too short to cut (round gives 0) and is sent as one line.
C3_Witness ==
  /\ \E k \in SegmentedLines : Len(Sent(k)) = 12
  /\ \E k \in SegmentedLines :
       /\ calls[k].args[1] # before[k][1]
       /\ Len(Sent(k)) = 1
       /\ roundSqrtOver(distance(before[k][1], calls[k].args[1]),
                        approximateSegmentLength, halfEven) = 0

RECURSIVE Shift(_, _)
\* The least k >= 0 with i * 2^k >= n.
Shift(i, n) == IF i >= n THEN 0 ELSE 1 + Shift(2 * i, n)

\* The float i / n of two integers 0 < i <= n <= 256: the exact quotient
\* rounded to binary64.
Quotient(i, n) ==
  LET k   == Shift(i, n)
      one == IF k = 8 THEN <<0, 0, 0, 1>> ELSE <<0, 0, 2^(k + 12), 0>>
      qr  == DivSmall(MulSmall(one, i), n)
      m   == IF 2 * qr.r > n \/ (2 * qr.r = n /\ qr.q[1] % 2 = 1)
             THEN Carry(<<qr.q[1] + 1, qr.q[2], qr.q[3], qr.q[4]>>)
             ELSE qr.q
  IN  MulSmall(m, 2^(8 - k))

\* The point sent by the j-th call of a sequence of lineTo calls.
Target(seq, j) == seq[j].args[1]

\* C4: a lineTo from A to B with segmentLines enabled sends B itself as its
\* last point, and its i-th point is interpolatePoint(A, B, i / stepCount).
C4_LastPointExact ==
  \A k \in SegmentedLines :
    LET sent == Sent(k)
        n    == Len(sent)
    IN  n > 0 =>
          /\ Target(sent, n) = calls[k].args[1]
          /\ roundSqrtOver(distance(before[k][1], calls[k].args[1]),
                           approximateSegmentLength, halfEven) >= 1
               => \A i \in 1..n :
                    Target(sent, i) =
                      interpolatePoint(before[k][1], calls[k].args[1], Quotient(i, n))

\* The calls curveTo(c1, c2, end) in which c1 is the current point and c2
\* is end: straight lines written as curves.
FalseCurves ==
  {k \in 1..Len(calls) :
     /\ calls[k].op = "curveTo"
     /\ before[k][1] # None
     /\ calls[k].args[1] = before[k][1]
     /\ calls[k].args[2] = calls[k].args[3]}

\* The current point after call k: the one call k + 1 found, or the pen's.
After(k) == IF k < Len(calls) THEN before[k + 1][1] ELSE currentPt

C6_DoubleDropped ==
  [][\A pt \in Points \cup Corners :
       (filterDoubles /\ pt = currentPt
          /\ calls' = Append(calls, Call("lineTo", <<pt>>)))
       => /\ otherPen' = otherPen
          /\ currentPt' = currentPt
          /\ firstPt' = firstPt
          /\ config' = config]_vars

\* A lineTo to the current point was made on a pen with filterDoubles.
C6_Witness ==
  \E k \in 1..Len(calls) :
    /\ filterDoubles
    /\ calls[k].op = "lineTo"
    /\ calls[k].args[1] = before[k][1]
    /\ ~raised[k]

\* C7: addComponent(glyphName, transformation) sends that one call, with
\* the same arguments, to otherPen, whether or not a subpath is open, and
\* changes neither currentPt nor firstPt.
C7_ComponentForwarded ==
  [][\A c \in Components \cup DrawComponents :
       calls' = Append(calls, Call("addComponent", c))
       => /\ otherPen' = Append(otherPen, Call("addComponent", c))
          /\ currentPt' = currentPt
          /\ firstPt' = firstPt]_vars

\* Components added inside a subpath and outside any.
C7_Witness ==
  /\ \E k \in 1..Len(calls) :
       calls[k].op = "addComponent" /\ before[k][1] # None /\ Len(Sent(k)) = 1
  /\ \E k \in 1..Len(calls) :
       calls[k].op = "addComponent" /\ before[k][1] = None /\ Len(Sent(k)) = 1

\* Whether the calls are those of a path of straight lines: moveTo,
\* lineTo, closePath and endPath only, following the pen protocol.
LinesOnly ==
  /\ WellFormed(calls)
  /\ \A k \in 1..Len(calls) :
       calls[k].op \in {"moveTo", "lineTo", "closePath", "endPath"}

\* In a path of straight lines, the point the producer is at before call
\* k, a call inside a subpath: the target of call k - 1.
ProducerAt(k) == calls[k - 1].args[1]

\* The start of the subpath call k is in: the target of the last moveTo.
SubpathStart(k) ==
  LET m == CHOOSE i \in 1..(k - 1) :
             /\ calls[i].op = "moveTo"
             /\ \A j \in (i + 1)..(k - 1) : calls[j].op # "moveTo"
  IN  calls[m].args[1]

\* C8, as stated: with segmentLines disabled, the lineTo calls otherPen
\* receives for a path of straight lines are the lineTo calls made on the
\* pen: same points, same count, same order.
C8_Original ==
  (~segmentLines /\ LinesOnly)
    => SelectSeq(otherPen, IsLine) = SelectSeq(calls, IsLine)

\* C8, amended: with segmentLines disabled, each lineTo of a path of
\* straight lines is sent on as it is, one lineTo to the same point, except
\* that with filterDoubles a lineTo to the current point is dropped; and
\* each closePath sends, before the closePath, one closing lineTo to the
\* start of the subpath, except that with filterDoubles it sends none when
\* the current point is the start.
C8_LinesForwarded ==
  (~segmentLines /\ LinesOnly) =>
    \A k \in 1..Len(calls) :
      /\ calls[k].op = "lineTo" =>
           Sent(k) = IF filterDoubles /\ calls[k].args[1] = ProducerAt(k)
                     THEN <<>>
                     ELSE <<calls[k]>>
      /\ calls[k].op = "closePath" =>
           Sent(k) = (IF filterDoubles /\ SubpathStart(k) = ProducerAt(k)
                      THEN <<>>
                      ELSE <<Call("lineTo", <<SubpathStart(k)>>)>>)
                     \o <<calls[k]>>
      /\ calls[k].op \in {"moveTo", "endPath"} => Sent(k) = <<calls[k]>>

\* A closed triangle drawn with segmentLines disabled, whose sides are
\* longer than the segment length.
C8_Witness ==
  /\ ~segmentLines
  /\ approximateSegmentLength = 10
  /\ LinesOnly
  /\ filterDoubles
  /\ Ops(calls) = <<"moveTo", "lineTo", "lineTo", "closePath">>
  /\ Cardinality({calls[k].args[1] : k \in 1..3}) = 3
  /\ Len(otherPen) = 5

\* C9: lineTo, curveTo and closePath called while no point is current
\* raise an error and send nothing to otherPen, whatever the
\* configuration.
C9_FailFast ==
  \A k \in 1..Len(calls) :
    (calls[k].op \in {"lineTo", "curveTo", "closePath"} /\ before[k][1] = None)
      => (raised[k] /\ Sent(k) = <<>>)

\* What _testFlattenPen expects the PrintPen to print.
SquareFlattened ==
  << Call("moveTo", <<Pt(10, 10)>>),
     Call("lineTo", <<Pt(10, 20)>>), Call("lineTo", <<Pt(10, 30)>>),
     Call("lineTo", <<Pt(20, 30)>>), Call("lineTo", <<Pt(30, 30)>>),
     Call("lineTo", <<Pt(30, 20)>>), Call("lineTo", <<Pt(30, 10)>>),
     Call("lineTo", <<Pt(20, 10)>>), Call("lineTo", <<Pt(10, 10)>>),
     Call("closePath", <<>>) >>

\* The calls closePath made with segmentLines enabled on a subpath whose
\* current point is not its start.
ClosingEdges ==
  {k \in 1..Len(calls) :
     /\ calls[k].op = "closePath"
     /\ segmentLines
     /\ before[k][1] # None
     /\ before[k][2] # None
     /\ before[k][1] # before[k][2]}

\* The first part of C10: the square of _makeTestGlyph, drawn on a pen
\* with approximateSegmentLength = 10, segmentLines and filterDoubles,
\* reaches otherPen as the ten calls of the doctest.
C10_Scenario ==
  (approximateSegmentLength = 10 /\ segmentLines /\ filterDoubles /\ calls = Square)
    => otherPen = SquareFlattened

C10_ScenarioWitness ==
  approximateSegmentLength = 10 /\ segmentLines /\ filterDoubles /\ calls = Square

\* C10: the square of the doctest is flattened into the ten calls the
\* doctest lists; and in general a closePath sends the closing edge as
\* lineTo calls, the last of them to the start of the subpath, and then one
\* closePath.
C10_ClosingEdge ==
  /\ C10_Scenario
  /\ \A k \in ClosingEdges :
       LET sent == Sent(k)
           n    == Len(sent)
       IN  /\ ~raised[k]
           /\ n >= 2
           /\ sent[n] = Call("closePath", <<>>)
           /\ \A j \in 1..(n - 1) : sent[j].op = "lineTo"
           /\ sent[n - 1] = Call("lineTo", <<before[k][2]>>)

\* C13: with filterDoubles enabled, whatever the calls (curveTo and
\* closePath included), no call sends otherPen a lineTo to the point that
\* was current when the call was made.
C13_NoDoubleForwarded ==
  filterDoubles =>
    \A k \in 1..Len(calls) :
      LET sent == Sent(k)
      IN  \A j \in 1..Len(sent) :
            sent[j].op = "lineTo" => Target(sent, j) # before[k][1]

\* What lineTo(B) sends to otherPen when the current point is A: nothing
\* when filterDoubles is enabled and B is A, the one line when segmentLines
\* is disabled or the line is too short to cut, the pieces of the line
\* otherwise.
LineFrom(A, B) ==
  IF filterDoubles /\ B = A THEN <<>>
  ELSE IF ~segmentLines THEN <<Call("lineTo", <<B>>)>>
  ELSE LET n == roundSqrtOver(distance(A, B), approximateSegmentLength, halfEven)
       IN  IF n < 1 THEN <<Call("lineTo", <<B>>)>>
           ELSE [i \in 1..n |->
                   Call("lineTo", <<interpolatePoint(A, B, Times(i, Reciprocal(n)))>>)]

\* Whether lineTo(B) raises when the current point is A.
LineRaises(A, B) ==
  /\ ~(filterDoubles /\ B = A)
  /\ segmentLines
  /\ (A = None \/ B = None)

\* C14: closePath treats the closing edge as lineTo(firstPt) treats a
\* line: it sends what an explicit lineTo(firstPt) would send (nothing with
\* filterDoubles when the current point is firstPt, the pieces of the edge
\* with segmentLines), then one closePath, the last call it sends; and it
\* raises, sending nothing, exactly when that lineTo would raise.
C14_ClosingEdgeAsLine ==
  \A k \in 1..Len(calls) :
    calls[k].op = "closePath" =>
      /\ raised[k] = LineRaises(before[k][1], before[k][2])
      /\ raised[k] => Sent(k) = <<>>
      /\ ~raised[k] =>
           Sent(k) = LineFrom(before[k][1], before[k][2]) \o <<Call("closePath", <<>>)>>

\* A closing edge cut into 49 pieces, sent before the closePath, on a pen
\* with both options enabled.
C14_Witness ==
  \E k \in 1..Len(calls) :
    /\ calls[k].op = "closePath"
    /\ filterDoubles /\ segmentLines
    /\ before[k][1] # before[k][2]
    /\ Len(Sent(k)) = 50
    /\ Sent(k)[50].op = "closePath"

\* The calls made on the pen other than addComponent, with whether each
\* raised.
PathCalls ==
  SelectSeq([k \in 1..Len(calls) |-> [op |-> calls[k].op, raised |-> raised[k]]],
            LAMBDA c : c.op # "addComponent")

\* Whether the last call other than addComponent is a closePath or an
\* endPath that returned: no moveTo followed it.
AfterSubpath ==
  /\ PathCalls # <<>>
  /\ PathCalls[Len(PathCalls)].op \in {"closePath", "endPath"}
  /\ ~PathCalls[Len(PathCalls)].raised

\* C15: after a closePath or an endPath, and until the next moveTo, both
\* currentPt and firstPt are None.
C15_PointsCleared ==
  AfterSubpath => (currentPt = None /\ firstPt = None)

\* The last call made on the pen other than addComponent.
LastPathCall ==
  LET path == SelectSeq(calls, LAMBDA c : c.op # "addComponent")
  IN  path[Len(path)]

\* C16: inside a subpath of calls that follow the pen protocol, currentPt
\* is the point the producer passed to its last moveTo, lineTo or curveTo
\* (for a curveTo, the end point), whatever was sent to otherPen.
C16_CurrentPointExact ==
  (WellFormed(calls) /\ InSubpath) =>
    currentPt = LastPathCall.args[Len(LastPathCall.args)]

\* A line cut into 49 pieces, the last of which is not the end of the
\* line: the current point is the end of the line all the same.
C16_Witness ==
  /\ WellFormed(calls)
  /\ InSubpath
  /\ LastPathCall.op = "lineTo"
  /\ Len(Sent(Len(calls))) = 49
  /\ Target(otherPen, Len(otherPen)) # LastPathCall.args[1]
  /\ currentPt = LastPathCall.args[1]

\* The calls curveTo made while a point was current.
CurveCalls ==
  {k \in 1..Len(calls) : calls[k].op = "curveTo" /\ before[k][1] # None}

\* round(estimateCubicCurveLength(currentPt, c1, c2, end) /
\* approximateSegmentLength) for the curveTo call k.
CurveStepCount(k) ==
  roundOver(estimateCubicCurveLength(before[k][1], calls[k].args[1],
                                     calls[k].args[2], calls[k].args[3]),
            approximateSegmentLength, halfEven)

SecondMoves ==
  {k \in 1..Len(calls) :
     /\ calls[k].op = "moveTo"
     /\ \E m \in 1..(k - 1) :
          /\ calls[m].op = "moveTo"
          /\ \A j \in (m + 1)..(k - 1) : calls[j].op \notin {"closePath", "endPath"}}

\* firstPt after call k: the one call k + 1 found, or the pen's.
FirstAfter(k) == IF k < Len(calls) THEN before[k + 1][2] ELSE firstPt

\* C18: a moveTo made while the subpath of an earlier moveTo is still open
\* raises an error, sends nothing to otherPen and leaves currentPt and
\* firstPt as they were.
C18_SecondMoveRejected ==
  \A k \in SecondMoves :
    /\ raised[k]
    /\ Sent(k) = <<>>
    /\ After(k) = before[k][1]
    /\ FirstAfter(k) = before[k][2]

\* C19: when the calls follow the pen protocol, each closePath finds in
\* firstPt the point of the moveTo of its own subpath, whatever subpaths
\* came before and however they ended, and the closing edge it sends is
\* the line from the current point to that point.
C19_OwnStart ==
  WellFormed(calls) =>
    \A k \in 1..Len(calls) :
      calls[k].op = "closePath" =>
        /\ before[k][2] = SubpathStart(k)
        /\ Sent(k) = LineFrom(before[k][1], SubpathStart(k))
                       \o <<Call("closePath", <<>>)>>

\* A second subpath, starting elsewhere than the first, closed by a
\* closePath that sent a closing edge ending at the second start.
C19_Witness ==
  \E m1, m2, k \in 1..Len(calls) :
    /\ m1 < m2 /\ m2 < k
    /\ calls[m1].op = "moveTo" /\ calls[m2].op = "moveTo"
    /\ calls[m1].args[1] # calls[m2].args[1]
    /\ \A j \in (m2 + 1)..(k - 1) : calls[j].op = "lineTo"
    /\ calls[k].op = "closePath"
    /\ Len(Sent(k)) >= 2
    /\ Target(Sent(k), Len(Sent(k)) - 1) = calls[m2].args[1]

\* What curveTo(c1, c2, end) sends to otherPen when the current point is A,
\* as a function of the segment length and of the rounding alone.
CurveFrom(A, c1, c2, end) ==
  LET n == roundOver(estimateCubicCurveLength(A, c1, c2, end),
                     approximateSegmentLength, halfEven)
  IN  IF n < 1 \/ (c1 = A /\ c2 = end)
      THEN <<Call("lineTo", <<end>>)>>
      ELSE [i \in 1..n |->
              Call("lineTo", <<getCubicPoint(Times(i, Reciprocal(n)), A, c1, c2, end)>>)]

RECURSIVE Flattened(_, _, _)
\* What a pen whose current and first points are given by at, and which
\* has sent out so far, has sent and holds after the calls seq[j..], calls
\* of moveTo, curveTo, endPath and addComponent.  segmentLines is not read.
Flattened(seq, j, at) ==
  IF j > Len(seq) THEN at
  ELSE LET c == seq[j]
       IN  IF c.op = "moveTo"
           THEN Flattened(seq, j + 1,
                          [out |-> Append(at.out, c), currentPt |-> c.args[1],
                           firstPt |-> c.args[1]])
           ELSE IF c.op = "curveTo"
           THEN IF at.currentPt = None
                THEN Flattened(seq, j + 1, at)
                ELSE Flattened(seq, j + 1,
                               [out |-> at.out \o CurveFrom(at.currentPt, c.args[1],
                                                            c.args[2], c.args[3]),
                                currentPt |-> c.args[3], firstPt |-> at.firstPt])
           ELSE IF c.op = "endPath"
           THEN Flattened(seq, j + 1,
                          [out |-> Append(at.out, c), currentPt |-> None,
                           firstPt |-> at.firstPt])
           ELSE Flattened(seq, j + 1,
                          [out |-> Append(at.out, c), currentPt |-> at.currentPt,
                           firstPt |-> at.firstPt])

\* Whether the calls are moveTo, curveTo, endPath and addComponent only.
NoLines ==
  \A k \in 1..Len(calls) :
    calls[k].op \in {"moveTo", "curveTo", "endPath", "addComponent"}

\* C20: two pens that differ only in segmentLines and are given the same
\* calls of moveTo, curveTo, endPath and addComponent send the same calls
\* to otherPen and end with the same currentPt and firstPt.  A pen is
\* deterministic, so this is: what such calls send and leave is a function
\* of the calls and of the rest of the configuration, the same function
\* for either value of segmentLines.
C20_SegmentLinesIgnored ==
  NoLines =>
    LET end == Flattened(calls, 1, [out |-> <<>>, currentPt |-> None, firstPt |-> None])
    IN  /\ otherPen = end.out
        /\ currentPt = end.currentPt
        /\ firstPt = end.firstPt

\* A pen without segmentLines that flattened a curve into several lines
\* between a moveTo and an endPath.
C20_Witness ==
  /\ ~segmentLines
  /\ NoLines
  /\ Ops(calls) = <<"moveTo", "curveTo", "endPath">>
  /\ Len(Sent(2)) >= 3

\* What _testFlattenGlyph expects the PrintPen to print.
SquareRedrawn ==
  << Call("moveTo", <<Pt(10, 10)>>),
     Call("lineTo", <<Pt(10, 20)>>), Call("lineTo", <<Pt(10, 30)>>),
     Call("lineTo", <<Pt(20, 30)>>), Call("lineTo", <<Pt(30, 30)>>),
     Call("lineTo", <<Pt(30, 20)>>), Call("lineTo", <<Pt(30, 10)>>),
     Call("lineTo", <<Pt(20, 10)>>),
     Call("closePath", <<>>) >>

\* flattenGlyph has returned the square of _makeTestGlyph, called with
\* threshold 10 and segmentLines.
SquareDone ==
  /\ pc = "done"
  /\ calls = Square
  /\ approximateSegmentLength = 10
  /\ segmentLines

\* C11: the square of _makeTestGlyph, flattened by flattenGlyph with
\* threshold 10 and segmentLines and then drawn, makes the nine calls of
\* the doctest: a moveTo to (10, 10), seven lineTo, the last of them to
\* (20, 10) and not to (10, 10) again, and a closePath.
C11_SquareRedrawn ==
  SquareDone =>
    /\ aGlyph = SquareRedrawn
    /\ aGlyph[Len(aGlyph) - 1] = Call("lineTo", <<Pt(20, 10)>>)

\* The square was flattened into the ten calls of _testFlattenPen, and
\* the glyph was rebuilt from them.
C11_Witness ==
  /\ SquareDone
  /\ otherPen = SquareFlattened
  /\ Len(aGlyph) = 9

====
